---- MODULE Spec2Model ----
(***************************************************************************)
(* The module registry of SCINE Core: ModuleManager, the Module protocol   *)
(* and the DerivedModule resolution helpers.                               *)
(*                                                                         *)
(* The repository carries two implementations of the manager's member      *)
(* functions: ModuleManager::Impl in Core/Impl/ModuleManager.h and the     *)
(* member functions of Core/ModuleManager.cpp.  A process links one of     *)
(* them; the variable `linked` records which.                              *)
(*                                                                         *)
(* A std::string is a sequence of character codes (ASCII), so that         *)
(* lower-casing, concatenation and the ordering used by std::lower_bound   *)
(* are computed as the code computes them.                                 *)
(***************************************************************************)
EXTENDS Integers, Sequences, FiniteSets, TLC

\* ------------------------------------------------------------------ bounds
MaxSources == 2     \* number of Loaded Sources a run appends at most
MaxHeld == 1        \* number of resolved instances the callers keep at most
MaxEntries == 2     \* number of interface entries of a capability table at most
MaxModels == 2      \* number of models an entry of a table lists at most
MaxDirs == 2        \* number of directories the constructor scans at most
MaxFiles == 3       \* number of candidate libraries a scan finds at most
MaxTokens == 3      \* number of entries of SCINE_MODULE_PATH at most
MaxTokenLen == 1    \* number of characters of one entry at most
MaxCallables == 2   \* number of callables one call of lazy is given at most
MaxThreads == 2     \* number of threads that call getInstance() at most

\* ----------------------------------------------------------------- strings
s_Module == <<77, 111, 100, 117, 108, 101>>          \* "Module"
s_module == <<109, 111, 100, 117, 108, 101>>         \* "module"
s_any == <<97, 110, 121>>                            \* "any"
s_ANY == <<65, 110, 89>>                             \* "AnY"
s_Foo == <<70, 111, 111>>                            \* "Foo"
s_foo == <<102, 111, 111>>                           \* "foo"
s_FooModule == s_Foo \o s_Module                     \* "FooModule"
s_Bar == <<66, 97, 114>>                             \* "Bar"
s_Nope == <<78, 111, 112, 101>>                      \* "Nope"
s_FakeModule == <<70, 97, 107, 101>> \o s_Module     \* "FakeModule"
s_y == <<121>>                                       \* "y"
s_Y == <<89>>                                        \* "Y"
s_w == <<119>>                                       \* "w"
s_wy == <<119, 121>>                                 \* "wy"
s_x == <<120>>                                       \* "x"
s_X == <<88>>                                        \* "X"
s_z == <<122>>                                       \* "z"
s_empty == <<>>                                      \* ""
s_a == <<97>>                                        \* "a"
s_b == <<98>>                                        \* "b"

\* ::tolower in the "C" locale
tolower(c) == IF c >= 65 /\ c <= 90 THEN c + 32 ELSE c

\* boost::algorithm::to_lower_copy
to_lower_copy(s) == [k \in 1..Len(s) |-> tolower(s[k])]

\* detail::caseInsensitiveEqual: four-iterator std::equal with a tolower
\* comparison
caseInsensitiveEqual(a, b) ==
  /\ Len(a) = Len(b)
  /\ \A k \in 1..Len(a) : tolower(a[k]) = tolower(b[k])

\* std::string operator< (lexicographic on the character codes)
StrLess(a, b) ==
  \E k \in 1..(Len(b)) :
     /\ k <= Len(a) + 1
     /\ \A j \in 1..(k - 1) : a[j] = b[j]
     /\ (k = Len(a) + 1 \/ a[k] < b[k])

SetMin(S) == CHOOSE v \in S : \A u \in S : v <= u
SetMax(S) == CHOOSE v \in S : \A u \in S : v >= u

\* --------------------------------------------------- modules and libraries
\* A module built with DerivedModule.h is its name and its capability table
\* (the boost::mpl::map of interface -> model list, in declaration order).
\* FakeModule is the hand-written module of Tests/CoreTests.cpp.
ModuleIds == {"mFoo", "mFooModule", "mfoo", "mBar", "mAny", "mFake"}

ModuleKind ==
  [m \in ModuleIds |-> IF m = "mFake" THEN "handwritten" ELSE "derived"]

ModuleName ==
  [m \in ModuleIds |->
     CASE m = "mFoo" -> s_Foo
       [] m = "mFooModule" -> s_FooModule
       [] m = "mfoo" -> s_foo
       [] m = "mBar" -> s_Bar
       [] m = "mAny" -> s_any
       [] m = "mFake" -> s_FakeModule]

InterfaceModelMap ==
  [m \in ModuleIds |->
     CASE m = "mFoo" -> << [interface |-> s_y, models |-> <<s_x, s_z>>] >>
       [] m = "mFooModule" -> << [interface |-> s_y, models |-> <<s_z>>],
                                 [interface |-> s_w, models |-> <<s_x>>] >>
       [] m = "mfoo" -> << [interface |-> s_wy, models |-> <<s_z>>],
                           [interface |-> s_y, models |-> <<s_x>>] >>
       [] m = "mBar" -> << [interface |-> s_y, models |-> <<s_x>>],
                           [interface |-> s_w, models |-> <<s_z>>] >>
       [] m = "mAny" -> << [interface |-> s_y, models |-> <<s_x>>] >>
       [] m = "mFake" -> << >>]

\* What a path or a library handle leads to: whether the file can be mapped,
\* whether it exports moduleFactory, and what moduleFactory() returns.
LibraryIds ==
  {"libFoo", "libFooModule", "libfooAny", "libBarFoo", "libTwin",
   "libMissing", "libNoFactory"}

LibraryFile ==
  [l \in LibraryIds |->
     CASE l = "libFoo" ->
            [mapped |-> TRUE, factory |-> TRUE, modules |-> <<"mFoo">>]
       [] l = "libFooModule" ->
            [mapped |-> TRUE, factory |-> TRUE, modules |-> <<"mFooModule">>]
       [] l = "libfooAny" ->
            [mapped |-> TRUE, factory |-> TRUE, modules |-> <<"mfoo", "mAny">>]
       [] l = "libBarFoo" ->
            [mapped |-> TRUE, factory |-> TRUE, modules |-> <<"mBar", "mFoo">>]
       [] l = "libTwin" ->
            [mapped |-> TRUE, factory |-> TRUE, modules |-> <<"mBar", "mBar">>]
       [] l = "libMissing" ->
            [mapped |-> FALSE, factory |-> FALSE, modules |-> << >>]
       [] l = "libNoFactory" ->
            [mapped |-> TRUE, factory |-> FALSE, modules |-> << >>]]

\* modules handed to load(std::shared_ptr<Module>)
InProcessModules == {"mFake"}

\* arguments of the queries
QueryInterfaces == {s_y, s_Y, s_w}
QueryModels == {s_x, s_X, s_z}
QueryFilters ==
  {s_empty, s_Foo, s_foo, s_FooModule, s_Bar, s_any, s_ANY, s_Nope}

\* the calls of has and get a run makes
Call(interface, model, moduleName) ==
  [interface |-> interface, model |-> model, moduleName |-> moduleName]

Calls ==
  {Call(s_y, s_x, s_empty), Call(s_y, s_x, s_Bar), Call(s_y, s_x, s_Nope),
   Call(s_y, s_x, s_FooModule), Call(s_Y, s_X, s_foo), Call(s_y, s_x, s_ANY),
   Call(s_y, s_x, s_Foo)}

\* The capability tables the DerivedModule function templates are
\* instantiated with: a boost::mpl::map has one entry per interface type,
\* and an entry's boost::mpl::vector may list any models, none included.
TableInterfaces == {s_Y, s_w}
TableModels == {s_x, s_X, s_z}
ModelTypeLists == UNION {[1..n -> TableModels] : n \in 0..MaxModels}
MPLMaps ==
  UNION {{t \in [1..n -> [interface : TableInterfaces,
                          models : ModelTypeLists]] :
            \A a, b \in 1..n : a # b => t[a].interface # t[b].interface} :
         n \in 0..MaxEntries}

\* arguments of the calls of the DerivedModule functions
DerivedInterfaces == {s_y, s_Y, s_w, s_wy}
DerivedModels == {s_x, s_X, s_z}

\* What the constructor finds: the directories it scans, in the order it
\* scans them (beside the executable, the adjacent directories, beside the
\* core library, the directories of SCINE_MODULE_PATH), each with the files
\* whose name patternMatchModuleLibrary accepts, in the order the
\* directory_iterator yields them.
DiscoveryFiles ==
  {"libFoo", "libBarFoo", "libfooAny", "libMissing", "libNoFactory"}
\* the candidates of a scan, each with the number of its directory, in the
\* order the constructor comes to them: MaxFiles candidates at most, in
\* MaxDirs directories
Candidates ==
  {c \in UNION {[1..n -> (1..MaxDirs) \X DiscoveryFiles] : n \in 0..MaxFiles} :
     \A k \in 1..(Len(c) - 1) : c[k][1] <= c[k + 1][1]}

\* the directories of a scan, each the sequence of its candidates
Directories(c) ==
  [d \in 1..MaxDirs |->
     LET inDirectory == SelectSeq(c, LAMBDA e : e[1] = d)
     IN  [k \in 1..Len(inDirectory) |-> inDirectory[k][2]]]

ScanLists == {Directories(c) : c \in Candidates}

VARIABLES linked, sources, held, ret, table, call, discovery, environment,
          log, singleton
vars == <<linked, sources, held, ret, table, call, discovery, environment,
          log, singleton>>

\* exec_if executing on the first element when no element satisfies p
exec_if_firstWhenNone(Sequence, p, e, none) ==
  LET matching == {k \in 1..Len(Sequence) : p[k]}
  IN  IF matching # {} THEN e[SetMin(matching)]
      ELSE IF Len(Sequence) >= 1 THEN e[1] ELSE none

\* ------------------------------------------------------- DerivedModule.h
\* detail::exec_if: the executable applied to the first item of the type
\* sequence the predicate accepts, Executable::none() when it accepts none.
\* p[k] is the predicate's and e[k] the executable's value on item k.
exec_if(Sequence, p, e, none) ==
  LET matching == {k \in 1..Len(Sequence) : p[k]}
  IN  IF matching = {} THEN none ELSE e[SetMin(matching)]

\* a boost::any: empty, or holding a shared_ptr to a fresh model, or (for
\* FakeModule's `return NULL`) an integer
EmptyAny == [empty |-> TRUE, holds |-> "nothing", model |-> s_empty]

\* detail::MapPairInterfaceIdentifierMatches over the entries of a map
MapPairInterfaceIdentifierMatches(identifier, MPLMap) ==
  [k \in 1..Len(MPLMap) |->
     caseInsensitiveEqual(identifier, MPLMap[k].interface)]

\* detail::ModelTypeIdentifierMatches over the models of a list
ModelTypeIdentifierMatches(identifier, ModelTypeList) ==
  [k \in 1..Len(ModelTypeList) |->
     caseInsensitiveEqual(identifier, ModelTypeList[k])]

\* a CreateInterfacePointer wrapping a null pointer
CreateInterfacePointer_null(ModelType) ==
  [empty |-> FALSE, holds |-> "null", model |-> ModelType]

\* detail::CreateInterfacePointer
CreateInterfacePointer(ModelType) ==
  [empty |-> FALSE, holds |-> "shared_ptr", model |-> ModelType]

\* ResolveModel constructing the last model of the list that matches
ResolveModel_last(identifier, PairType) ==
  LET matching == {k \in 1..Len(PairType.models) :
                     caseInsensitiveEqual(PairType.models[k], identifier)}
  IN  IF matching = {} THEN EmptyAny
      ELSE CreateInterfacePointer(PairType.models[SetMax(matching)])

\* detail::ResolveModel
ResolveModel(identifier, PairType) ==
  exec_if(PairType.models,
          ModelTypeIdentifierMatches(identifier, PairType.models),
          [k \in 1..Len(PairType.models) |->
             CreateInterfacePointer(PairType.models[k])],
          EmptyAny)

\* ModelExists looking at the first model of the list only
ModelExists_firstOnly(identifier, PairType) ==
  /\ Len(PairType.models) >= 1
  /\ caseInsensitiveEqual(PairType.models[1], identifier)

\* detail::ModelExists with detail::MatchFoundExecutor
ModelExists(identifier, PairType) ==
  exec_if(PairType.models,
          ModelTypeIdentifierMatches(identifier, PairType.models),
          [k \in 1..Len(PairType.models) |-> TRUE],
          FALSE)

\* DerivedModule::resolve
resolve(MPLMap, interface, model) ==
  exec_if(MPLMap, MapPairInterfaceIdentifierMatches(interface, MPLMap),
          [k \in 1..Len(MPLMap) |-> ResolveModel(model, MPLMap[k])],
          EmptyAny)

\* DerivedModule::has
DerivedModule_has(MPLMap, interface, model) ==
  exec_if(MPLMap, MapPairInterfaceIdentifierMatches(interface, MPLMap),
          [k \in 1..Len(MPLMap) |-> ModelExists(model, MPLMap[k])],
          FALSE)

\* DerivedModule::announceInterfaces
DerivedModule_announceInterfaces(MPLMap) ==
  [k \in 1..Len(MPLMap) |-> MPLMap[k].interface]

\* DerivedModule::announceModels with detail::ListModels
DerivedModule_announceModels(MPLMap, interface) ==
  exec_if(MPLMap, MapPairInterfaceIdentifierMatches(interface, MPLMap),
          [k \in 1..Len(MPLMap) |-> MPLMap[k].models],
          << >>)

\* a C string read at position k: its character, or the terminating '\0'
charAt(a, k) == IF k <= Len(a) THEN a[k] ELSE 0

\* detail::strEqual, the compile-time comparison of two C strings
RECURSIVE strEqualFrom(_, _, _)
strEqualFrom(a, b, k) ==
  /\ charAt(a, k) = charAt(b, k)
  /\ (charAt(a, k) = 0 \/ strEqualFrom(a, b, k + 1))

strEqual(a, b) == strEqualFrom(a, b, 1)

\* detail::identifiersOverlap
identifiersOverlap(typeIdentifiers) ==
  \E i \in 1..Len(typeIdentifiers) :
    \E j \in (i + 1)..Len(typeIdentifiers) :
      strEqual(typeIdentifiers[i], typeIdentifiers[j])

\* detail::IdentifierOverlapPredicate
IdentifierOverlapPredicate(MPLMapIterPair) ==
  identifiersOverlap(MPLMapIterPair.models)

\* detail::ModelTypeListIsEmpty
ModelTypeListIsEmpty(MPLMapIterPair) == Len(MPLMapIterPair.models) = 0

\* detail::none_of: boost::mpl::find_if reaches the end of the sequence
none_of(Sequence, Predicate) ==
  {k \in 1..Len(Sequence) : Predicate[k]} = {}

\* detail::ModelListsAreNotEmpty
ModelListsAreNotEmpty(MPLMap) ==
  none_of(MPLMap, [k \in 1..Len(MPLMap) |-> ModelTypeListIsEmpty(MPLMap[k])])

\* detail::NoModelIdentifiersOverlap
NoModelIdentifiersOverlap(MPLMap) ==
  none_of(MPLMap,
          [k \in 1..Len(MPLMap) |-> IdentifierOverlapPredicate(MPLMap[k])])

\* the two static_asserts of DerivedModule::resolve: resolve<MPLMap> is
\* well-formed, and a program calling it exists, only when both hold
resolve_static_assert(MPLMap) ==
  ModelListsAreNotEmpty(MPLMap) /\ NoModelIdentifiersOverlap(MPLMap)

\* SampleModule::get, the get of a module written with DerivedModule.h
SampleModule_get(MPLMap, interface, model) ==
  LET resolved == resolve(MPLMap, interface, model)
  IN  IF resolved.empty THEN [threw |-> TRUE, any |-> EmptyAny]
      ELSE [threw |-> FALSE, any |-> resolved]

\* ---------------------------------------------------- the Module protocol
\* Module::name
name(m) == ModuleName[m]

\* Module::has (SampleModule::has, FakeModule::has)
Module_has(m, interface, model) ==
  IF ModuleKind[m] = "handwritten" THEN FALSE
  ELSE DerivedModule_has(InterfaceModelMap[m], interface, model)

\* Module::get (SampleModule::get, FakeModule::get)
Module_get(m, interface, model) ==
  IF ModuleKind[m] = "handwritten"
  THEN [threw |-> FALSE,
        any |-> [empty |-> FALSE, holds |-> "integer", model |-> s_empty]]
  ELSE SampleModule_get(InterfaceModelMap[m], interface, model)

\* Module::announceInterfaces
Module_announceInterfaces(m) ==
  IF ModuleKind[m] = "handwritten" THEN << >>
  ELSE DerivedModule_announceInterfaces(InterfaceModelMap[m])

\* Module::announceModels
Module_announceModels(m, interface) ==
  IF ModuleKind[m] = "handwritten" THEN << >>
  ELSE DerivedModule_announceModels(InterfaceModelMap[m], interface)

\* --------------------------------------------------------- ModuleManager
\* `for source in _sources: for modulePtr in source.modules`: the modules in
\* the order every query visits them, each with the index of its source
RECURSIVE scan(_, _)
scan(srcs, k) ==
  IF k > Len(srcs) THEN << >>
  ELSE [j \in 1..Len(srcs[k].modules) |->
          [src |-> k, module |-> srcs[k].modules[j]]] \o scan(srcs, k + 1)

\* a moduleLoaded that looks at the first module of each source only
moduleLoaded_firstModuleOnly(srcs, moduleName) ==
  \E k \in 1..Len(srcs) :
    /\ srcs[k].modules # << >>
    /\ moduleName = name(srcs[k].modules[1])

\* ModuleManager::moduleLoaded (the same code in both implementations)
moduleLoaded(srcs, moduleName) ==
  \E k \in 1..Len(srcs) :
    \E j \in 1..Len(srcs[k].modules) : moduleName = name(srcs[k].modules[j])

\* ModuleManager::getLoadedModuleNames (the same code in both)
getLoadedModuleNames(srcs) ==
  LET all == scan(srcs, 1) IN [k \in 1..Len(all) |-> name(all[k].module)]

\* getLoadedModels leaving out a model identity the list already holds
RECURSIVE appendModels_skipKnown(_, _, _, _)
appendModels_skipKnown(models, all, interface, k) ==
  IF k > Len(all) THEN models
  ELSE LET sourceModels == Module_announceModels(all[k].module, interface)
       IN  appendModels_skipKnown(
             models \o SelectSeq(sourceModels,
                                 LAMBDA id : \A n \in 1..Len(models) :
                                               models[n] # id),
             all, interface, k + 1)

\* the loop of ModuleManager::getLoadedModels: the announced models of each
\* module are moved to the back of `models`
RECURSIVE appendModels(_, _, _, _)
appendModels(models, all, interface, k) ==
  IF k > Len(all) THEN models
  ELSE LET sourceModels == Module_announceModels(all[k].module, interface)
       IN  appendModels(models \o sourceModels, all, interface, k + 1)

\* ModuleManager::getLoadedModels (the same code in both implementations)
getLoadedModels(srcs, interface) ==
  appendModels(<< >>, scan(srcs, 1), interface, 1)

\* std::lower_bound on a sorted vector: the first position whose element is
\* not less than the value
lower_bound(v, value) ==
  LET notLess == {k \in 1..Len(v) : ~StrLess(v[k], value)}
  IN  IF notLess = {} THEN Len(v) + 1 ELSE SetMin(notLess)

\* insertInterface without the test against the element found
insertInterface_noDedup(interfaces, interfaceName) ==
  LET findIter == lower_bound(interfaces, interfaceName)
  IN  SubSeq(interfaces, 1, findIter - 1) \o <<interfaceName>>
        \o SubSeq(interfaces, findIter, Len(interfaces))

\* the body of the innermost loop of getLoadedInterfaces: insert the name at
\* its lower bound unless it is already there
insertInterface(interfaces, interfaceName) ==
  LET findIter == lower_bound(interfaces, interfaceName)
  IN  IF findIter = Len(interfaces) + 1 \/ interfaces[findIter] # interfaceName
      THEN SubSeq(interfaces, 1, findIter - 1) \o <<interfaceName>>
             \o SubSeq(interfaces, findIter, Len(interfaces))
      ELSE interfaces

RECURSIVE insertAll(_, _, _)
insertAll(interfaces, names, k) ==
  IF k > Len(names) THEN interfaces
  ELSE insertAll(insertInterface(interfaces, names[k]), names, k + 1)

RECURSIVE collectInterfaces(_, _, _)
collectInterfaces(interfaces, all, k) ==
  IF k > Len(all) THEN interfaces
  ELSE collectInterfaces(
         insertAll(interfaces, Module_announceInterfaces(all[k].module), 1),
         all, k + 1)

\* ModuleManager::getLoadedInterfaces (the same code in both)
getLoadedInterfaces(srcs) == collectInterfaces(<< >>, scan(srcs, 1), 1)

\* the result of a manager get / _get
NotImplemented ==
  [outcome |-> "ClassNotImplementedError", pos |-> 0, src |-> 0,
   module |-> "-", any |-> EmptyAny]

\* `return modulePtr->get(interface, model)` for the module at position k
getFrom(all, k, interface, model) ==
  LET got == Module_get(all[k].module, interface, model)
  IN  IF got.threw THEN NotImplemented
      ELSE [outcome |-> "returned", pos |-> k, src |-> all[k].src,
            module |-> all[k].module, any |-> got.any]

\* the name test of ModuleManager::Impl::has / get / getAll
Impl_nameMatches(m, moduleNameLower) ==
  LET modulePtrLower == to_lower_copy(name(m))
  IN  ~(/\ modulePtrLower # moduleNameLower
        /\ modulePtrLower # moduleNameLower \o s_module)

\* a has that asks every loaded module, whatever the filter
Impl_has_unfiltered(srcs, interface, model, moduleName) ==
  LET all == scan(srcs, 1)
  IN  \E k \in 1..Len(all) : Module_has(all[k].module, interface, model)

\* ModuleManager::Impl::has
Impl_has(srcs, interface, model, moduleName) ==
  LET moduleNameLower == to_lower_copy(moduleName)
      all == scan(srcs, 1)
  IN  IF moduleName # s_empty /\ moduleNameLower # s_any
      THEN \E k \in 1..Len(all) :
             /\ Impl_nameMatches(all[k].module, moduleNameLower)
             /\ Module_has(all[k].module, interface, model)
      ELSE \E k \in 1..Len(all) : Module_has(all[k].module, interface, model)


\* Impl::get returning from the last module that reports has, not the first
Impl_get_lastMatch(srcs, interface, model, moduleName) ==
  LET moduleNameLower == to_lower_copy(moduleName)
      all == scan(srcs, 1)
      filtered == {k \in 1..Len(all) :
                     /\ Impl_nameMatches(all[k].module, moduleNameLower)
                     /\ Module_has(all[k].module, interface, model)}
      unfiltered == {k \in 1..Len(all) :
                       Module_has(all[k].module, interface, model)}
  IN  IF moduleName # s_empty /\ moduleNameLower # s_any
      THEN IF filtered # {}
           THEN getFrom(all, SetMax(filtered), interface, model)
           ELSE NotImplemented
      ELSE IF unfiltered # {}
           THEN getFrom(all, SetMax(unfiltered), interface, model)
           ELSE NotImplemented

\* ModuleManager::Impl::get
Impl_get(srcs, interface, model, moduleName) ==
  LET moduleNameLower == to_lower_copy(moduleName)
      all == scan(srcs, 1)
      filtered == {k \in 1..Len(all) :
                     /\ Impl_nameMatches(all[k].module, moduleNameLower)
                     /\ Module_has(all[k].module, interface, model)}
      unfiltered == {k \in 1..Len(all) :
                       Module_has(all[k].module, interface, model)}
  IN  IF moduleName # s_empty /\ moduleNameLower # s_any
      THEN IF filtered # {}
           THEN getFrom(all, SetMin(filtered), interface, model)
           ELSE NotImplemented
      ELSE IF unfiltered # {}
           THEN getFrom(all, SetMin(unfiltered), interface, model)
           ELSE NotImplemented

\* the name test of ModuleManager::has / _get / _getAll in ModuleManager.cpp
Cpp_nameMatches(m, moduleName) ==
  ~(name(m) # moduleName /\ name(m) # moduleName \o s_Module)

\* ModuleManager::has of ModuleManager.cpp
Cpp_has(srcs, interface, model, moduleName) ==
  LET all == scan(srcs, 1)
  IN  IF moduleName # s_empty
      THEN \E k \in 1..Len(all) :
             /\ Cpp_nameMatches(all[k].module, moduleName)
             /\ Module_has(all[k].module, interface, model)
      ELSE \E k \in 1..Len(all) : Module_has(all[k].module, interface, model)

\* ModuleManager::_get of ModuleManager.cpp: the filtered loop is followed by
\* the unfiltered one, which also runs when the filtered loop found nothing
Cpp_get(srcs, interface, model, moduleName) ==
  LET all == scan(srcs, 1)
      filtered == {k \in 1..Len(all) :
                     /\ Cpp_nameMatches(all[k].module, moduleName)
                     /\ Module_has(all[k].module, interface, model)}
      unfiltered == {k \in 1..Len(all) :
                       Module_has(all[k].module, interface, model)}
  IN  IF moduleName # s_empty /\ filtered # {}
      THEN getFrom(all, SetMin(filtered), interface, model)
      ELSE IF unfiltered # {}
           THEN getFrom(all, SetMin(unfiltered), interface, model)
           ELSE NotImplemented

\* `for model in modulePtr->announceModels(interface):
\*    models.push_back(modulePtr->get(interface, model))` for the module at
\* position k
pushBackAll(models, all, k, interface) ==
  LET announced == Module_announceModels(all[k].module, interface)
  IN  models \o [j \in 1..Len(announced) |->
                   getFrom(all, k, interface, announced[j])]

\* the unfiltered loops of getAll / _getAll, from position k on
RECURSIVE pushBackFrom(_, _, _, _)
pushBackFrom(models, all, k, interface) ==
  IF k > Len(all) THEN models
  ELSE pushBackFrom(pushBackAll(models, all, k, interface), all, k + 1,
                    interface)

\* what getAll hands back: the vector, or the exception of a module's get
getAllResult(models) ==
  [threw |-> \E n \in 1..Len(models) : models[n].outcome # "returned",
   models |-> models]

\* Impl::getAll going on to every module the filter names
Impl_getAll_everyMatch(srcs, interface, moduleName) ==
  LET moduleNameLower == to_lower_copy(moduleName)
      all == scan(srcs, 1)
      named == SelectSeq(all, LAMBDA a :
                                Impl_nameMatches(a.module, moduleNameLower))
  IN  IF moduleName # s_empty /\ moduleNameLower # s_any
      THEN getAllResult(pushBackFrom(<< >>, named, 1, interface))
      ELSE getAllResult(pushBackFrom(<< >>, all, 1, interface))

\* ModuleManager::Impl::getAll
Impl_getAll(srcs, interface, moduleName) ==
  LET moduleNameLower == to_lower_copy(moduleName)
      all == scan(srcs, 1)
      named == {k \in 1..Len(all) :
                  Impl_nameMatches(all[k].module, moduleNameLower)}
  IN  IF moduleName # s_empty /\ moduleNameLower # s_any
      THEN IF named # {}
           THEN getAllResult(pushBackAll(<< >>, all, SetMin(named),
                                         interface))
           ELSE getAllResult(<< >>)
      ELSE getAllResult(pushBackFrom(<< >>, all, 1, interface))

\* ModuleManager::_getAll of ModuleManager.cpp
Cpp_getAll(srcs, interface, moduleName) ==
  LET all == scan(srcs, 1)
      named == {k \in 1..Len(all) :
                  Cpp_nameMatches(all[k].module, moduleName)}
  IN  IF moduleName # s_empty
      THEN IF named # {}
           THEN getAllResult(pushBackAll(<< >>, all, SetMin(named),
                                         interface))
           ELSE getAllResult(<< >>)
      ELSE getAllResult(pushBackFrom(<< >>, all, 1, interface))

\* ModuleManager::get<Interface>(model, moduleName) after `any =
\* _get(Interface::interface, model, moduleName)`: the assert, then the
\* boost::any_cast to std::shared_ptr<Interface>, which throws when the any
\* holds something else.  An exception of _get passes through.
get_Interface(result) ==
  IF result.outcome # "returned"
  THEN [outcome |-> result.outcome, asserted |-> TRUE, ptr |-> "none"]
  ELSE IF result.any.empty
  THEN [outcome |-> "assertion", asserted |-> FALSE, ptr |-> "none"]
  ELSE IF result.any.holds = "shared_ptr"
  THEN [outcome |-> "returned", asserted |-> TRUE, ptr |-> "non-null"]
  ELSE IF result.any.holds = "null"
  THEN [outcome |-> "returned", asserted |-> TRUE, ptr |-> "null"]
  ELSE [outcome |-> "bad_any_cast", asserted |-> TRUE, ptr |-> "none"]

\* the two asserts in the loop of the predicate form of get: they are
\* evaluated on the elements of the vector up to the one returned
get_predicate_asserted(anys, predicate) ==
  LET satisfying == {n \in 1..Len(anys.models) :
                       anys.models[n].any.model \in predicate}
      last == IF satisfying = {} THEN Len(anys.models)
              ELSE SetMin(satisfying)
  IN  anys.threw \/ \A n \in 1..last :
                       /\ ~anys.models[n].any.empty
                       /\ anys.models[n].any.holds = "shared_ptr"

\* the what() of the two std::runtime_error of the predicate form of get
what_NoModelsLoaded == "There are no models of this interface loaded."
what_NoMatch == "No model matches the supplied predicate!"

\* the predicate get throwing "no match" also for an empty vector
get_predicate_noEmptyCheck(anys, predicate) ==
  LET satisfying == {n \in 1..Len(anys.models) :
                       anys.models[n].any.model \in predicate}
  IN  IF anys.threw
      THEN [outcome |-> "ClassNotImplementedError", what |-> "",
            result |-> NotImplemented]
      ELSE IF satisfying # {}
      THEN [outcome |-> "returned", what |-> "",
            result |-> anys.models[SetMin(satisfying)]]
      ELSE [outcome |-> "runtime_error", what |-> what_NoMatch,
            result |-> NotImplemented]

\* ModuleManager::get<Interface>(predicate, moduleName) after `anys =
\* _getAll(Interface::interface, moduleName)`.  A predicate is the set of
\* models whose instances it accepts.  An exception of _getAll passes
\* through.
get_predicate(anys, predicate) ==
  LET satisfying == {n \in 1..Len(anys.models) :
                       anys.models[n].any.model \in predicate}
  IN  IF anys.threw
      THEN [outcome |-> "ClassNotImplementedError", what |-> "",
            result |-> NotImplemented]
      ELSE IF anys.models = << >>
      THEN [outcome |-> "runtime_error", what |-> what_NoModelsLoaded,
            result |-> NotImplemented]
      ELSE IF satisfying # {}
      THEN [outcome |-> "returned", what |-> "",
            result |-> anys.models[SetMin(satisfying)]]
      ELSE [outcome |-> "runtime_error", what |-> what_NoMatch,
            result |-> NotImplemented]

\* ------------------------------------------------------- loading a source
\* LibraryAndModules(std::shared_ptr<Module>)
LibraryAndModules_module(m) == [library |-> "none", modules |-> <<m>>]

\* the shared_library constructor calling moduleFactory without looking
\* whether the library has it
LibraryAndModules_shlib_noCheck(l) ==
  [threw |-> FALSE,
   lib |-> [library |-> l, modules |-> LibraryFile[l].modules]]

\* LibraryAndModules(boost::dll::shared_library): throws when the handle has
\* no moduleFactory symbol (an unloaded handle has none), else calls it
LibraryAndModules_shlib(l) ==
  IF ~LibraryFile[l].mapped \/ ~LibraryFile[l].factory
  THEN [threw |-> TRUE, lib |-> [library |-> l, modules |-> << >>]]
  ELSE [threw |-> FALSE,
        lib |-> [library |-> l, modules |-> LibraryFile[l].modules]]

\* LibraryAndModules(const path&): tryLoad throws when the library cannot be
\* mapped, then the shared_library constructor runs
LibraryAndModules_path(l) ==
  IF ~LibraryFile[l].mapped
  THEN [threw |-> TRUE, lib |-> [library |-> l, modules |-> << >>]]
  ELSE LibraryAndModules_shlib(l)

\* Impl::load pushing the source back whether or not a name is loaded
Impl_load_appendAlways(srcs, lib) ==
  LET alreadyLoaded ==
        \E k \in 1..Len(lib.modules) : moduleLoaded(srcs, name(lib.modules[k]))
  IN  [threw |-> FALSE, alreadyLoaded |-> alreadyLoaded,
       sources |-> Append(srcs, lib)]

\* Impl::load assigning the new source over the list
Impl_load_replace(srcs, lib) ==
  LET alreadyLoaded ==
        \E k \in 1..Len(lib.modules) : moduleLoaded(srcs, name(lib.modules[k]))
  IN  [threw |-> FALSE, alreadyLoaded |-> alreadyLoaded,
       sources |-> IF ~alreadyLoaded THEN <<lib>> ELSE srcs]

\* Impl::load inserting the new source at the front
Impl_load_prepend(srcs, lib) ==
  LET alreadyLoaded ==
        \E k \in 1..Len(lib.modules) : moduleLoaded(srcs, name(lib.modules[k]))
  IN  [threw |-> FALSE, alreadyLoaded |-> alreadyLoaded,
       sources |-> IF ~alreadyLoaded THEN <<lib>> \o srcs ELSE srcs]

\* a load that refuses a source one of whose module names is loaded
Impl_load_throwWhenLoaded(srcs, lib) ==
  LET alreadyLoaded ==
        \E k \in 1..Len(lib.modules) : moduleLoaded(srcs, name(lib.modules[k]))
  IN  [threw |-> alreadyLoaded, alreadyLoaded |-> alreadyLoaded,
       sources |-> IF ~alreadyLoaded THEN Append(srcs, lib) ELSE srcs]

\* the three ModuleManager::Impl::load overloads after the construction of
\* `lib`: append unless one of its module names is loaded
Impl_load(srcs, lib) ==
  LET alreadyLoaded ==
        \E k \in 1..Len(lib.modules) : moduleLoaded(srcs, name(lib.modules[k]))
  IN  [threw |-> FALSE, alreadyLoaded |-> alreadyLoaded,
       sources |-> IF ~alreadyLoaded THEN Append(srcs, lib) ELSE srcs]

\* the two ModuleManager::load overloads of ModuleManager.cpp after the
\* construction of `lib`: throw when one of its module names is loaded
Cpp_load(srcs, lib) ==
  LET alreadyLoaded ==
        \E k \in 1..Len(lib.modules) : moduleLoaded(srcs, name(lib.modules[k]))
  IN  [threw |-> alreadyLoaded, alreadyLoaded |-> alreadyLoaded,
       sources |-> IF alreadyLoaded THEN srcs ELSE Append(srcs, lib)]

\* ------------------------------------------------------------- discovery
\* this->load(filePath) of the linked implementation: the construction of
\* the LibraryAndModules may throw, and so may the load of ModuleManager.cpp
load_path(impl, srcs, filePath) ==
  LET c == LibraryAndModules_path(filePath)
      r == IF impl = "Impl" THEN Impl_load(srcs, c.lib)
           ELSE Cpp_load(srcs, c.lib)
  IN  IF c.threw \/ r.threw THEN [threw |-> TRUE, sources |-> srcs]
      ELSE [threw |-> FALSE, sources |-> r.sources]

\* the load of a candidate without the try block: the exception leaves the
\* scan
tryLoad_noCatch(impl, srcs, filePath) == load_path(impl, srcs, filePath)

\* `try { this->load(filePath); } catch (...) {}`
tryLoad(impl, srcs, filePath) ==
  LET r == load_path(impl, srcs, filePath)
  IN  IF r.threw THEN [threw |-> FALSE, sources |-> srcs] ELSE r

\* Impl::tryLoadModulesInPath and the lambda loadModulesInPath of the
\* constructor of ModuleManager.cpp: the std::for_each over the files of a
\* directory, from file k on; an exception leaving the loop ends it
RECURSIVE tryLoadModulesInPath(_, _, _, _)
tryLoadModulesInPath(impl, r, directory, k) ==
  IF r.threw \/ k > Len(directory) THEN r
  ELSE tryLoadModulesInPath(impl, tryLoad(impl, r.sources, directory[k]),
                            directory, k + 1)

\* the constructor: one scan per directory, in order, from directory d on
RECURSIVE scanDirectories(_, _, _, _)
scanDirectories(impl, r, dirs, d) ==
  IF r.threw \/ d > Len(dirs) THEN r
  ELSE scanDirectories(impl, tryLoadModulesInPath(impl, r, dirs[d], 1),
                       dirs, d + 1)

\* ------------------------------------------------------ SCINE_MODULE_PATH
\* `const char pathSep = ':'` (outside _WIN32)
pathSep == 58

\* the file system: the one directory that exists is "a"; "b" and every
\* longer path do not exist
ExistingDirectories == {s_a}

\* boost::filesystem::exists(p) && boost::filesystem::is_directory(p)
is_directory(p) == p \in ExistingDirectories

\* std::string::find(ch, pos) on 0-based positions; -1 stands for
\* std::string::npos, whose successor is 0 in size_type arithmetic
RECURSIVE find(_, _, _)
find(s, ch, pos) ==
  IF pos >= Len(s) THEN -1
  ELSE IF s[pos + 1] = ch THEN pos
  ELSE find(s, ch, pos + 1)

\* std::string::substr(pos, count) on 0-based positions: `count` characters
\* from pos on, or as many as there are; count = npos takes the rest
substr(s, pos, count) ==
  SubSeq(s, pos + 1,
         IF count = -1 \/ pos + count > Len(s) THEN Len(s) ELSE pos + count)

\* std::getline(ss, item, delimiter) with the stream at 0-based position
\* pos: fails when no character is left, else extracts up to and including
\* the next delimiter and stores what precedes it
getline(s, delimiter, pos) ==
  LET end == find(s, delimiter, pos)
  IN  IF pos >= Len(s) THEN [ok |-> FALSE, item |-> s_empty, pos |-> pos]
      ELSE IF end = -1
             THEN [ok |-> TRUE, item |-> SubSeq(s, pos + 1, Len(s)),
                   pos |-> Len(s)]
      ELSE [ok |-> TRUE, item |-> SubSeq(s, pos + 1, end), pos |-> end + 1]

\* the while loop of Detail::split, with the stream at position pos
RECURSIVE splitFrom(_, _, _, _)
splitFrom(s, delimiter, pos, elements) ==
  LET g == getline(s, delimiter, pos)
  IN  IF ~g.ok THEN elements
      ELSE splitFrom(s, delimiter, g.pos, Append(elements, g.item))

\* a split that stops after the first item
split_firstOnly(s, delimiter) ==
  LET g == getline(s, delimiter, 0)
  IN  IF g.ok THEN <<g.item>> ELSE << >>

\* Detail::split
split(s, delimiter) == splitFrom(s, delimiter, 0, << >>)

\* the range-for of Impl::Impl() over Detail::split(modulePath, pathSep),
\* from element k on: the directories handed to tryLoadModulesInPath
RECURSIVE Impl_scanModulePath(_, _, _)
Impl_scanModulePath(elements, k, scanned) ==
  IF k > Len(elements) THEN scanned
  ELSE LET singlePath == elements[k]
       IN  Impl_scanModulePath(elements, k + 1,
             IF singlePath # s_empty /\ is_directory(singlePath)
               THEN Append(scanned, singlePath) ELSE scanned)

\* the do-while of the constructor of ModuleManager.cpp, from startPos on:
\* the directories handed to loadModulesInPath.  The second argument of
\* substr is endPos, a position used as a count.
RECURSIVE Cpp_scanModulePath(_, _, _)
Cpp_scanModulePath(modulePath, startPos, scanned) ==
  LET endPos == find(modulePath, pathSep, startPos)
      singlePath == substr(modulePath, startPos, endPos)
      next == IF singlePath # s_empty /\ is_directory(singlePath)
                THEN Append(scanned, singlePath) ELSE scanned
  IN  IF endPos + 1 = 0 THEN next
      ELSE Cpp_scanModulePath(modulePath, endPos + 1, next)

\* ------------------------------------------------------------ Log::Domain
\* names of sinks and the sinks (std::shared_ptr<std::ostream>) they name
SinkNames == {"sample", "cerr", "cout"}
SinkPtrs == {"cerrSink", "coutSink", "fileSink"}

\* std::unordered_map::emplace: inserts unless the key is present
emplace(sinks, n, s) ==
  IF n \in DOMAIN sinks THEN sinks
  ELSE [k \in (DOMAIN sinks) \cup {n} |-> IF k = n THEN s ELSE sinks[k]]

\* std::unordered_map::erase(iterator)
erase(sinks, findIter) == [k \in (DOMAIN sinks) \ {findIter} |-> sinks[k]]

\* Domain() and Domain(n, s)
Domain_default == << >>
Domain_single(n, s) == emplace(Domain_default, n, s)

\* the members of a default-constructed Log and of Log::silent()
DomainNames == {"debug", "warning", "error", "output"}

Log_default ==
  [d \in DomainNames |->
     CASE d = "debug" -> Domain_default
       [] d = "warning" -> Domain_single("cerr", "cerrSink")
       [] d = "error" -> Domain_single("cerr", "cerrSink")
       [] d = "output" -> Domain_single("cout", "coutSink")]

Log_silent == [d \in DomainNames |-> Domain_default]

\* a find that hands back the end iterator instead of throwing
expectantFind_noThrow(sinks, sinkName) ==
  [threw |-> FALSE, findIter |-> sinkName]

\* Domain::expectantFind
expectantFind(sinks, sinkName) ==
  [threw |-> sinkName \notin DOMAIN sinks, findIter |-> sinkName]

\* Domain::add
Domain_add(sinks, n, s) == emplace(sinks, n, s)

\* Domain::clear
Domain_clear(sinks) == << >>

\* Domain::remove
Domain_remove(sinks, sinkName) ==
  LET f == expectantFind(sinks, sinkName)
  IN  IF f.threw THEN [outcome |-> "out_of_range", sinks |-> sinks]
      ELSE [outcome |-> "returned", sinks |-> erase(sinks, f.findIter)]

\* Domain::extract
Domain_extract(sinks, sinkName) ==
  LET f == expectantFind(sinks, sinkName)
  IN  IF f.threw
        THEN [outcome |-> "out_of_range", sinks |-> sinks, ptr |-> "-"]
      ELSE [outcome |-> "returned", sinks |-> erase(sinks, f.findIter),
            ptr |-> IF f.findIter \in DOMAIN sinks THEN sinks[f.findIter]
                    ELSE "-"]

\* Domain::operator bool
Domain_bool(sinks) == DOMAIN sinks # {}

\* Domain::sink(f, args...): `*this << f()` for each callable in turn, from
\* callable k on; a callable that throws ends the call
RECURSIVE sink(_, _, _)
sink(args, k, invoked) ==
  IF k > Len(args) THEN [outcome |-> "returned", invoked |-> invoked]
  ELSE IF args[k] = "throws"
         THEN [outcome |-> "runtime_error", invoked |-> invoked + 1]
  ELSE sink(args, k + 1, invoked + 1)

\* a lazy that evaluates its callables whatever the domain holds
Domain_lazy_unguarded(sinks, args) == sink(args, 1, 0)

\* Domain::lazy
Domain_lazy(sinks, args) ==
  IF Domain_bool(sinks) THEN sink(args, 1, 0)
  ELSE [outcome |-> "returned", invoked |-> 0]

\* ---------------------------------------------------------- getInstance
\* what a thread that reaches `static ModuleManager instance;` does, by the
\* state of the guard of the block-scope static: the first one constructs,
\* one that arrives during the construction waits for its end, a later one
\* goes on to the return
guard_acquire_unguarded(guard) ==
  IF guard = "initialized" THEN "return" ELSE "construct"

guard_acquire(guard) ==
  CASE guard = "uninitialized" -> "construct"
    [] guard = "initializing" -> "wait"
    [] guard = "initialized" -> "return"

\* --------------------------------------------------------------- the state
\* linked   which implementation of the manager the process runs
\* sources  std::vector<LibraryAndModules> _sources
\* held     the resolved instances callers still hold, each with the source
\*          (position and library) whose code it runs
\* ret      the last call on the manager and how it ended
\* table    the capability table (boost::mpl::map) the DerivedModule
\*          function templates are instantiated with
\* call     the last call of a DerivedModule function and how it ended
\* discovery  the directories the constructor scans and whether it has run
\* environment  the value of SCINE_MODULE_PATH and what was made of it
\* log      a Log::Domain: its sinks_ and the last call on it
\* singleton  the function-local static of getInstance() and the threads
\*          calling getInstance()
NoRet ==
  [op |-> "none", target |-> "-", interface |-> s_empty, model |-> s_empty,
   moduleName |-> s_empty, alreadyLoaded |-> FALSE, outcome |-> "-",
   found |-> FALSE, result |-> NotImplemented, predicate |-> {},
   what |-> "", results |-> << >>]

GetAllRet(interface, moduleName, anys) ==
  [NoRet EXCEPT !.op = "getAll", !.interface = interface,
                !.moduleName = moduleName,
                !.outcome = IF anys.threw THEN "ClassNotImplementedError"
                            ELSE "returned",
                !.results = anys.models]

PredicateRet(interface, predicate, moduleName, got) ==
  [NoRet EXCEPT !.op = "get_predicate", !.interface = interface,
                !.predicate = predicate, !.moduleName = moduleName,
                !.outcome = got.outcome, !.what = got.what,
                !.result = got.result]

LoadRet(op, target, constructed, alreadyLoaded, threw) ==
  [NoRet EXCEPT !.op = op, !.target = target,
                !.alreadyLoaded = alreadyLoaded,
                !.outcome = IF ~constructed \/ threw THEN "runtime_error"
                            ELSE "returned"]

HasRet(interface, model, moduleName, found) ==
  [NoRet EXCEPT !.op = "has", !.interface = interface, !.model = model,
                !.moduleName = moduleName, !.outcome = "returned",
                !.found = found]

GetRet(interface, model, moduleName, result) ==
  [NoRet EXCEPT !.op = "get", !.interface = interface, !.model = model,
                !.moduleName = moduleName, !.outcome = result.outcome,
                !.result = result]

\* the caller keeps the instance a get returned (shared ownership)
keep(h, srcs, result) ==
  IF result.outcome = "returned" /\ Cardinality(h) < MaxHeld
  THEN h \cup {[src |-> result.src, library |-> srcs[result.src].library,
                module |-> result.module]}
  ELSE h

\* no DerivedModule call made yet
NoCall ==
  [op |-> "none", interface |-> s_empty, model |-> s_empty,
   outcome |-> "-", found |-> FALSE, any |-> EmptyAny, list |-> << >>]

\* SCINE_MODULE_PATH is not set
NoEnvironment ==
  [tokens |-> << >>, modulePath |-> s_empty, op |-> "none", s |-> s_empty,
   delimiter |-> 0, elements |-> << >>, scanned |-> << >>]

\* a Log::Domain nothing was called on, without sinks
NoLog ==
  [sinks_ |-> << >>, origin |-> <<"Log", "debug">>, op |-> "none",
   previous |-> "none", name |-> "-", outcome |-> "-", extracted |-> "-",
   args |-> << >>, invoked |-> 0, bool |-> FALSE]

\* getInstance() was called and has returned before the run begins
NoSingleton ==
  [guard |-> "initialized", constructions |-> 1, scan |-> << >>,
   todo |-> << >>, pc |-> << >>, path |-> << >>, seen |-> << >>]

\* a manager whose constructor found no directory to scan
NoDiscovery == [phase |-> "constructed", dirs |-> << >>]

Init ==
  /\ linked \in {"Impl", "Cpp"}
  /\ sources = << >>
  /\ held = {}
  /\ ret = NoRet
  /\ table = << >>
  /\ call = NoCall
  /\ discovery = NoDiscovery
  /\ environment = NoEnvironment
  /\ log = NoLog
  /\ singleton = NoSingleton

\* manager.load(std::shared_ptr<Module>), Impl only
ImplLoadModule(m) ==
  /\ linked = "Impl"
  /\ LET r == Impl_load(sources, LibraryAndModules_module(m))
     IN  /\ Len(r.sources) <= MaxSources
         /\ sources' = r.sources
         /\ ret' = LoadRet("load_module", m, TRUE, r.alreadyLoaded, r.threw)
  /\ UNCHANGED <<linked, held, table, call, discovery,
               environment, log, singleton>>

\* manager.load(path), Impl
ImplLoadPath(l) ==
  /\ linked = "Impl"
  /\ LET c == LibraryAndModules_path(l)
         r == Impl_load(sources, c.lib)
     IN  IF c.threw
         THEN /\ ret' = LoadRet("load_path", l, FALSE, FALSE, FALSE)
              /\ UNCHANGED sources
         ELSE /\ Len(r.sources) <= MaxSources
              /\ sources' = r.sources
              /\ ret' = LoadRet("load_path", l, TRUE, r.alreadyLoaded, r.threw)
  /\ UNCHANGED <<linked, held, table, call, discovery,
               environment, log, singleton>>

\* manager.load(boost::dll::shared_library), Impl
ImplLoadLibrary(l) ==
  /\ linked = "Impl"
  /\ LET c == LibraryAndModules_shlib(l)
         r == Impl_load(sources, c.lib)
     IN  IF c.threw
         THEN /\ ret' = LoadRet("load_library", l, FALSE, FALSE, FALSE)
              /\ UNCHANGED sources
         ELSE /\ Len(r.sources) <= MaxSources
              /\ sources' = r.sources
              /\ ret' = LoadRet("load_library", l, TRUE, r.alreadyLoaded,
                                r.threw)
  /\ UNCHANGED <<linked, held, table, call, discovery,
               environment, log, singleton>>

\* manager.load(path), ModuleManager.cpp
CppLoadPath(l) ==
  /\ linked = "Cpp"
  /\ LET c == LibraryAndModules_path(l)
         r == Cpp_load(sources, c.lib)
     IN  IF c.threw
         THEN /\ ret' = LoadRet("load_path", l, FALSE, FALSE, FALSE)
              /\ UNCHANGED sources
         ELSE /\ Len(r.sources) <= MaxSources
              /\ sources' = r.sources
              /\ ret' = LoadRet("load_path", l, TRUE, r.alreadyLoaded, r.threw)
  /\ UNCHANGED <<linked, held, table, call, discovery,
               environment, log, singleton>>

\* manager.load(boost::dll::shared_library), ModuleManager.cpp
CppLoadLibrary(l) ==
  /\ linked = "Cpp"
  /\ LET c == LibraryAndModules_shlib(l)
         r == Cpp_load(sources, c.lib)
     IN  IF c.threw
         THEN /\ ret' = LoadRet("load_library", l, FALSE, FALSE, FALSE)
              /\ UNCHANGED sources
         ELSE /\ Len(r.sources) <= MaxSources
              /\ sources' = r.sources
              /\ ret' = LoadRet("load_library", l, TRUE, r.alreadyLoaded,
                                r.threw)
  /\ UNCHANGED <<linked, held, table, call, discovery,
               environment, log, singleton>>

\* manager.has(interface, model, moduleName), Impl
ImplHas(interface, model, moduleName) ==
  /\ linked = "Impl"
  /\ ret' = HasRet(interface, model, moduleName,
                   Impl_has(sources, interface, model, moduleName))
  /\ UNCHANGED <<linked, sources, held, table, call, discovery,
               environment, log, singleton>>

\* manager.has(interface, model, moduleName), ModuleManager.cpp
CppHas(interface, model, moduleName) ==
  /\ linked = "Cpp"
  /\ ret' = HasRet(interface, model, moduleName,
                   Cpp_has(sources, interface, model, moduleName))
  /\ UNCHANGED <<linked, sources, held, table, call, discovery,
               environment, log, singleton>>

\* manager.get(interface, model, moduleName), Impl
ImplGet(interface, model, moduleName) ==
  /\ linked = "Impl"
  /\ LET result == Impl_get(sources, interface, model, moduleName)
     IN  /\ ret' = GetRet(interface, model, moduleName, result)
         /\ held' = keep(held, sources, result)
  /\ UNCHANGED <<linked, sources, table, call, discovery,
               environment, log, singleton>>

\* manager.get<Interface>(model, moduleName), ModuleManager.cpp
CppGet(interface, model, moduleName) ==
  /\ linked = "Cpp"
  /\ LET result == Cpp_get(sources, interface, model, moduleName)
     IN  /\ ret' = GetRet(interface, model, moduleName, result)
         /\ held' = keep(held, sources, result)
  /\ UNCHANGED <<linked, sources, table, call, discovery,
               environment, log, singleton>>

Next ==
  \/ \E m \in InProcessModules : ImplLoadModule(m)
  \/ \E l \in LibraryIds : ImplLoadPath(l)
  \/ \E l \in LibraryIds : ImplLoadLibrary(l)
  \/ \E l \in LibraryIds : CppLoadPath(l)
  \/ \E l \in LibraryIds : CppLoadLibrary(l)
  \/ \E c \in Calls : ImplHas(c.interface, c.model, c.moduleName)
  \/ \E c \in Calls : CppHas(c.interface, c.model, c.moduleName)
  \/ \E c \in Calls : ImplGet(c.interface, c.model, c.moduleName)
  \/ \E c \in Calls : CppGet(c.interface, c.model, c.moduleName)

Spec == Init /\ [][Next]_vars

\* ------------------------------------------ getAll and the predicate get
\* the calls of getAll and of the predicate form of get a run makes
AllCalls ==
  {[interface |-> s_y, moduleName |-> s_empty],
   [interface |-> s_y, moduleName |-> s_Foo],
   [interface |-> s_Y, moduleName |-> s_foo],
   [interface |-> s_w, moduleName |-> s_any],
   [interface |-> s_w, moduleName |-> s_Nope]}

PredicateCalls ==
  {[interface |-> s_y, predicate |-> {s_z}, moduleName |-> s_empty],
   [interface |-> s_y, predicate |-> {}, moduleName |-> s_empty],
   [interface |-> s_y, predicate |-> {s_x, s_z}, moduleName |-> s_Bar],
   [interface |-> s_w, predicate |-> {s_x}, moduleName |-> s_Foo]}

\* manager.getAll(interface, moduleName), Impl
ImplGetAll(interface, moduleName) ==
  /\ linked = "Impl"
  /\ ret' = GetAllRet(interface, moduleName,
                      Impl_getAll(sources, interface, moduleName))
  /\ UNCHANGED <<linked, sources, held, table, call, discovery,
               environment, log, singleton>>

\* manager._getAll(interface, moduleName), ModuleManager.cpp
CppGetAll(interface, moduleName) ==
  /\ linked = "Cpp"
  /\ ret' = GetAllRet(interface, moduleName,
                      Cpp_getAll(sources, interface, moduleName))
  /\ UNCHANGED <<linked, sources, held, table, call, discovery,
               environment, log, singleton>>

\* manager.get<Interface>(predicate, moduleName) over Impl::getAll
ImplGetPredicate(interface, predicate, moduleName) ==
  /\ linked = "Impl"
  /\ LET got == get_predicate(Impl_getAll(sources, interface, moduleName),
                              predicate)
     IN  /\ ret' = PredicateRet(interface, predicate, moduleName, got)
         /\ held' = keep(held, sources, got.result)
  /\ UNCHANGED <<linked, sources, table, call, discovery,
               environment, log, singleton>>

\* manager.get<Interface>(predicate, moduleName) over _getAll
CppGetPredicate(interface, predicate, moduleName) ==
  /\ linked = "Cpp"
  /\ LET got == get_predicate(Cpp_getAll(sources, interface, moduleName),
                              predicate)
     IN  /\ ret' = PredicateRet(interface, predicate, moduleName, got)
         /\ held' = keep(held, sources, got.result)
  /\ UNCHANGED <<linked, sources, table, call, discovery,
               environment, log, singleton>>

NextGetAll ==
  \/ \E m \in InProcessModules : ImplLoadModule(m)
  \/ \E l \in LibraryIds : ImplLoadPath(l)
  \/ \E l \in LibraryIds : ImplLoadLibrary(l)
  \/ \E l \in LibraryIds : CppLoadPath(l)
  \/ \E l \in LibraryIds : CppLoadLibrary(l)
  \/ \E c \in AllCalls : ImplGetAll(c.interface, c.moduleName)
  \/ \E c \in AllCalls : CppGetAll(c.interface, c.moduleName)
  \/ \E c \in PredicateCalls :
       ImplGetPredicate(c.interface, c.predicate, c.moduleName)
  \/ \E c \in PredicateCalls :
       CppGetPredicate(c.interface, c.predicate, c.moduleName)

SpecGetAll == Init /\ [][NextGetAll]_vars

\* ------------------------------------------------------ the constructor
\* The process starts with the directories in place; getInstance() then
\* runs the constructor of the linked implementation.
InitDiscovery ==
  /\ linked \in {"Impl", "Cpp"}
  /\ sources = << >>
  /\ held = {}
  /\ ret = NoRet
  /\ table = << >>
  /\ call = NoCall
  /\ discovery \in [phase : {"start"}, dirs : ScanLists]
  /\ environment = NoEnvironment
  /\ log = NoLog
  /\ singleton = NoSingleton

\* ModuleManager::Impl::Impl()
ImplConstruct ==
  /\ linked = "Impl"
  /\ discovery.phase = "start"
  /\ LET r == scanDirectories("Impl", [threw |-> FALSE, sources |-> << >>],
                              discovery.dirs, 1)
     IN  /\ sources' = r.sources
         /\ discovery' = [discovery EXCEPT
                            !.phase = IF r.threw THEN "threw"
                                      ELSE "constructed"]
  /\ UNCHANGED <<linked, held, ret, table, call,
               environment, log, singleton>>

\* ModuleManager::ModuleManager() of ModuleManager.cpp
CppConstruct ==
  /\ linked = "Cpp"
  /\ discovery.phase = "start"
  /\ LET r == scanDirectories("Cpp", [threw |-> FALSE, sources |-> << >>],
                              discovery.dirs, 1)
     IN  /\ sources' = r.sources
         /\ discovery' = [discovery EXCEPT
                            !.phase = IF r.threw THEN "threw"
                                      ELSE "constructed"]
  /\ UNCHANGED <<linked, held, ret, table, call,
               environment, log, singleton>>

NextDiscovery == ImplConstruct \/ CppConstruct

SpecDiscovery == InitDiscovery /\ [][NextDiscovery]_vars

\* ------------------------------------------------- SCINE_MODULE_PATH is set
\* the entries a user writes into SCINE_MODULE_PATH: names over "a" and "b"
\* (none holds the separator), the empty entry included
RECURSIVE Strings(_)
Strings(n) ==
  IF n = 0 THEN {s_empty}
  ELSE Strings(n - 1) \cup
       {Append(t, c) : t \in {u \in Strings(n - 1) : Len(u) = n - 1},
                       c \in {97, 98}}

Tokens == Strings(MaxTokenLen)

TokenLists == UNION {[1..n -> Tokens] : n \in 0..MaxTokens}

\* the entries written one after the other with `delimiter` between them
RECURSIVE join(_, _)
join(tokens, delimiter) ==
  IF tokens = << >> THEN s_empty
  ELSE IF Len(tokens) = 1 THEN tokens[1]
  ELSE tokens[1] \o <<delimiter>> \o join(Tail(tokens), delimiter)

InitModulePath ==
  /\ linked \in {"Impl", "Cpp"}
  /\ sources = << >>
  /\ held = {}
  /\ ret = NoRet
  /\ table = << >>
  /\ call = NoCall
  /\ discovery = NoDiscovery
  /\ environment \in
       {[NoEnvironment EXCEPT !.tokens = t, !.modulePath = join(t, pathSep)] :
          t \in TokenLists}
  /\ log = NoLog
  /\ singleton = NoSingleton

\* the delimiters Detail::split is called with: pathSep, the ';' of the
\* unit test and a letter that entries hold
Delimiters == {pathSep} \cup {59, 98}

\* Detail::split(s, delimiter) on the entries joined with the delimiter
Split(delimiter) ==
  /\ LET s == join(environment.tokens, delimiter)
     IN  environment' = [environment EXCEPT
                           !.op = "split", !.s = s, !.delimiter = delimiter,
                           !.elements = split(s, delimiter),
                           !.scanned = << >>]
  /\ UNCHANGED <<linked, sources, held, ret, table, call, discovery,
                 log, singleton>>

\* the SCINE_MODULE_PATH block of ModuleManager::Impl::Impl()
ImplModulePath ==
  /\ linked = "Impl"
  /\ LET elements == split(environment.modulePath, pathSep)
     IN  environment' = [environment EXCEPT
                           !.op = "construct", !.delimiter = pathSep,
                           !.s = environment.modulePath,
                           !.elements = elements,
                           !.scanned = Impl_scanModulePath(elements, 1, << >>)]
  /\ UNCHANGED <<linked, sources, held, ret, table, call, discovery,
                 log, singleton>>

\* the SCINE_MODULE_PATH block of ModuleManager::ModuleManager() of
\* ModuleManager.cpp
CppModulePath ==
  /\ linked = "Cpp"
  /\ environment' = [environment EXCEPT
                       !.op = "construct", !.delimiter = pathSep,
                       !.s = environment.modulePath, !.elements = << >>,
                       !.scanned = Cpp_scanModulePath(environment.modulePath,
                                                      0, << >>)]
  /\ UNCHANGED <<linked, sources, held, ret, table, call, discovery,
                 log, singleton>>

NextModulePath ==
  \/ \E delimiter \in Delimiters : Split(delimiter)
  \/ ImplModulePath
  \/ CppModulePath

SpecModulePath == InitModulePath /\ [][NextModulePath]_vars

\* ------------------------------------------------- calls on a Log::Domain
\* the nullary callables a call of lazy is given: each returns a value or
\* throws
CallableLists == UNION {[1..n -> {"returns", "throws"}] : n \in 0..MaxCallables}

\* the domain is a member of a default-constructed Log or of Log::silent()
InitLog ==
  /\ linked = "Impl"
  /\ sources = << >>
  /\ held = {}
  /\ ret = NoRet
  /\ table = << >>
  /\ call = NoCall
  /\ discovery = NoDiscovery
  /\ environment = NoEnvironment
  /\ \E d \in DomainNames :
        \/ log = [NoLog EXCEPT !.sinks_ = Log_default[d],
                               !.origin = <<"Log", d>>]
        \/ log = [NoLog EXCEPT !.sinks_ = Log_silent[d],
                               !.origin = <<"silent", d>>]
  /\ singleton = NoSingleton

\* what a call on the domain leaves behind
LogCall(op, sinkName, sinks, outcome) ==
  [log EXCEPT !.sinks_ = sinks, !.op = op, !.previous = log.op,
              !.name = sinkName, !.outcome = outcome, !.extracted = "-",
              !.args = << >>, !.invoked = 0, !.bool = FALSE]

LogAdd(n, s) ==
  /\ log' = LogCall("add", n, Domain_add(log.sinks_, n, s), "returned")
  /\ UNCHANGED <<linked, sources, held, ret, table, call, discovery,
                 environment, singleton>>

LogClear ==
  /\ log' = LogCall("clear", "-", Domain_clear(log.sinks_), "returned")
  /\ UNCHANGED <<linked, sources, held, ret, table, call, discovery,
                 environment, singleton>>

LogRemove(sinkName) ==
  /\ LET r == Domain_remove(log.sinks_, sinkName)
     IN  log' = LogCall("remove", sinkName, r.sinks, r.outcome)
  /\ UNCHANGED <<linked, sources, held, ret, table, call, discovery,
                 environment, singleton>>

LogExtract(sinkName) ==
  /\ LET r == Domain_extract(log.sinks_, sinkName)
     IN  log' = [LogCall("extract", sinkName, r.sinks, r.outcome)
                   EXCEPT !.extracted = r.ptr]
  /\ UNCHANGED <<linked, sources, held, ret, table, call, discovery,
                 environment, singleton>>

LogBool ==
  /\ log' = [LogCall("bool", "-", log.sinks_, "returned")
               EXCEPT !.bool = Domain_bool(log.sinks_)]
  /\ UNCHANGED <<linked, sources, held, ret, table, call, discovery,
                 environment, singleton>>

LogLazy(args) ==
  /\ LET r == Domain_lazy(log.sinks_, args)
     IN  log' = [LogCall("lazy", "-", log.sinks_, r.outcome)
                   EXCEPT !.args = args, !.invoked = r.invoked]
  /\ UNCHANGED <<linked, sources, held, ret, table, call, discovery,
                 environment, singleton>>

NextLog ==
  \/ \E n \in SinkNames, s \in SinkPtrs : LogAdd(n, s)
  \/ LogClear
  \/ \E n \in SinkNames : LogRemove(n)
  \/ \E n \in SinkNames : LogExtract(n)
  \/ LogBool
  \/ \E args \in CallableLists : LogLazy(args)

SpecLog == InitLog /\ [][NextLog]_vars

\* ------------------------------------- threads racing on getInstance()
Threads == 1..MaxThreads

\* the candidate libraries the constructor comes to, in order
SingletonScans == UNION {[1..n -> DiscoveryFiles] : n \in 0..MaxFiles}

\* no thread has called getInstance() yet
InitSingleton ==
  /\ linked \in {"Impl", "Cpp"}
  /\ sources = << >>
  /\ held = {}
  /\ ret = NoRet
  /\ table = << >>
  /\ call = NoCall
  /\ discovery = NoDiscovery
  /\ environment = NoEnvironment
  /\ log = NoLog
  /\ \E files \in SingletonScans :
        singleton = [guard |-> "uninitialized", constructions |-> 0,
                     scan |-> files, todo |-> files,
                     pc |-> [t \in Threads |-> "start"],
                     path |-> [t \in Threads |-> "-"],
                     seen |-> [t \in Threads |-> << >>]]

\* thread t reaches the declaration of the static in getInstance()
GetInstance(t) ==
  /\ singleton.pc[t] = "start"
  /\ LET do == guard_acquire(singleton.guard)
     IN  singleton' =
           CASE do = "construct" ->
                  [singleton EXCEPT !.guard = "initializing",
                                    !.constructions = @ + 1,
                                    !.todo = singleton.scan,
                                    !.pc[t] = "constructing",
                                    !.path[t] = "constructed"]
             [] do = "wait" ->
                  [singleton EXCEPT !.pc[t] = "waiting", !.path[t] = "waited"]
             [] do = "return" ->
                  [singleton EXCEPT !.pc[t] = "returned", !.path[t] = "found",
                                    !.seen[t] = sources]
  /\ UNCHANGED <<linked, sources, held, ret, table, call, discovery,
                 environment, log>>

\* the constructor, run by thread t, comes to its next candidate
ConstructStep(t) ==
  /\ singleton.pc[t] = "constructing"
  /\ singleton.todo # << >>
  /\ sources' = tryLoad(linked, sources, Head(singleton.todo)).sources
  /\ singleton' = [singleton EXCEPT !.todo = Tail(@)]
  /\ UNCHANGED <<linked, held, ret, table, call, discovery,
                 environment, log>>

\* the constructor returns: the static is initialized and thread t returns
\* the reference to it
ConstructEnd(t) ==
  /\ singleton.pc[t] = "constructing"
  /\ singleton.todo = << >>
  /\ singleton' = [singleton EXCEPT !.guard = "initialized",
                                    !.pc[t] = "returned",
                                    !.seen[t] = sources]
  /\ UNCHANGED <<linked, sources, held, ret, table, call, discovery,
                 environment, log>>

\* a thread that waited for the initialization goes on to the return
GuardWait(t) ==
  /\ singleton.pc[t] = "waiting"
  /\ singleton.guard = "initialized"
  /\ singleton' = [singleton EXCEPT !.pc[t] = "returned", !.seen[t] = sources]
  /\ UNCHANGED <<linked, sources, held, ret, table, call, discovery,
                 environment, log>>

NextSingleton ==
  \/ \E t \in Threads : GetInstance(t)
  \/ \E t \in Threads : ConstructStep(t)
  \/ \E t \in Threads : ConstructEnd(t)
  \/ \E t \in Threads : GuardWait(t)

SpecSingleton == InitSingleton /\ [][NextSingleton]_vars

\* ------------------------------------------------- the two forms of get
NextGet ==
  \/ \E m \in InProcessModules : ImplLoadModule(m)
  \/ \E l \in LibraryIds : ImplLoadPath(l)
  \/ \E l \in LibraryIds : ImplLoadLibrary(l)
  \/ \E l \in LibraryIds : CppLoadPath(l)
  \/ \E l \in LibraryIds : CppLoadLibrary(l)
  \/ \E c \in Calls : ImplGet(c.interface, c.model, c.moduleName)
  \/ \E c \in Calls : CppGet(c.interface, c.model, c.moduleName)
  \/ \E c \in PredicateCalls :
        ImplGetPredicate(c.interface, c.predicate, c.moduleName)
  \/ \E c \in PredicateCalls :
        CppGetPredicate(c.interface, c.predicate, c.moduleName)

SpecGet == Init /\ [][NextGet]_vars

\* ------------------------------------- the DerivedModule function templates
\* A module author instantiates the function templates of DerivedModule.h
\* with a capability table and calls them.
InitDerivedModule ==
  /\ linked = "Impl"
  /\ sources = << >>
  /\ held = {}
  /\ ret = NoRet
  /\ table \in MPLMaps
  /\ call = NoCall
  /\ discovery = NoDiscovery
  /\ environment = NoEnvironment
  /\ log = NoLog
  /\ singleton = NoSingleton

\* DerivedModule::has<MPLMap>(interface, model)
DerivedHas(interface, model) ==
  /\ call' = [NoCall EXCEPT !.op = "has", !.interface = interface,
                            !.model = model, !.outcome = "returned",
                            !.found = DerivedModule_has(table, interface,
                                                        model)]
  /\ UNCHANGED <<linked, sources, held, ret, table, discovery,
               environment, log, singleton>>

\* SampleModule::get over DerivedModule::resolve<MPLMap>(interface, model)
DerivedGet(interface, model) ==
  /\ resolve_static_assert(table)
  /\ LET got == SampleModule_get(table, interface, model)
     IN  call' = [NoCall EXCEPT !.op = "get", !.interface = interface,
                               !.model = model,
                               !.outcome = IF got.threw
                                           THEN "ClassNotImplementedError"
                                           ELSE "returned",
                               !.any = got.any]
  /\ UNCHANGED <<linked, sources, held, ret, table, discovery,
               environment, log, singleton>>

\* DerivedModule::announceInterfaces<MPLMap>()
DerivedAnnounceInterfaces ==
  /\ call' = [NoCall EXCEPT !.op = "announceInterfaces",
                            !.outcome = "returned",
                            !.list = DerivedModule_announceInterfaces(table)]
  /\ UNCHANGED <<linked, sources, held, ret, table, discovery,
               environment, log, singleton>>

\* DerivedModule::announceModels<MPLMap>(interface)
DerivedAnnounceModels(interface) ==
  /\ call' = [NoCall EXCEPT !.op = "announceModels",
                            !.interface = interface, !.outcome = "returned",
                            !.list = DerivedModule_announceModels(table,
                                                                  interface)]
  /\ UNCHANGED <<linked, sources, held, ret, table, discovery,
               environment, log, singleton>>

NextDerivedModule ==
  \/ \E i \in DerivedInterfaces : \E m \in DerivedModels : DerivedHas(i, m)
  \/ \E i \in DerivedInterfaces : \E m \in DerivedModels : DerivedGet(i, m)
  \/ DerivedAnnounceInterfaces
  \/ \E i \in DerivedInterfaces : DerivedAnnounceModels(i)

SpecDerivedModule == InitDerivedModule /\ [][NextDerivedModule]_vars

TypeOK ==
  /\ linked \in {"Impl", "Cpp"}
  /\ Len(sources) <= MaxSources
  /\ Cardinality(held) <= MaxHeld

\* ------------------------------------------------- what the claims speak of
LoadOps == {"load_module", "load_path", "load_library"}

IsPrefix(a, b) == Len(a) <= Len(b) /\ \A k \in 1..Len(a) : a[k] = b[k]

\* the manager's has and get of the linked implementation
Has(interface, model, moduleName) ==
  IF linked = "Impl" THEN Impl_has(sources, interface, model, moduleName)
  ELSE Cpp_has(sources, interface, model, moduleName)

Get(interface, model, moduleName) ==
  IF linked = "Impl" THEN Impl_get(sources, interface, model, moduleName)
  ELSE Cpp_get(sources, interface, model, moduleName)

\* the filter rule as the specification words it: the module's name equals
\* the filter or the filter followed by "Module", letter case ignored
FilterNames(moduleName, m) ==
  \/ caseInsensitiveEqual(name(m), moduleName)
  \/ caseInsensitiveEqual(name(m), moduleName \o s_Module)

IsSentinel(moduleName) == caseInsensitiveEqual(moduleName, s_any)

Loaded == scan(sources, 1)

\* C1: a load of a source one of whose module names is already loaded is not
\* an error: the call returns normally.
C1_ReloadIsNotAnError ==
  (ret.op \in LoadOps /\ ret.alreadyLoaded) => ret.outcome = "returned"

\* C2: no module name occurs twice in getLoadedModuleNames(), whatever was
\* loaded, sources with several modules included.
C2_ModuleNamesUnique ==
  LET names == getLoadedModuleNames(sources)
  IN  \A a, b \in 1..Len(names) : a # b => names[a] # names[b]

\* C3: a load of a source one of whose module names is already loaded adds
\* none of the source's modules and leaves the loaded sources as they were.
C3_CollidingLoadIsNoOp ==
  [][(ret'.op \in LoadOps /\ ret'.alreadyLoaded) => sources' = sources]_vars

\* a source with a loaded and a not loaded module name was refused whole
C3_Witness ==
  /\ ret.op \in LoadOps
  /\ ret.target = "libBarFoo"
  /\ ret.alreadyLoaded
  /\ moduleLoaded(sources, s_Foo)
  /\ ~moduleLoaded(sources, s_Bar)

HeldAlive ==
  \A inst \in held :
    /\ inst.src <= Len(sources)
    /\ sources[inst.src].library = inst.library
    /\ \E j \in 1..Len(sources[inst.src].modules) :
         sources[inst.src].modules[j] = inst.module

\* C4: the source that produced an instance a caller holds is still in the
\* registry, at its place; sources are only appended, and a module name that
\* is loaded stays loaded.
C4_SourcesOutliveInstances ==
  /\ []HeldAlive
  /\ [][/\ IsPrefix(sources, sources')
        /\ \A m \in ModuleIds : moduleLoaded(sources, name(m))
                                  => moduleLoaded(sources', name(m))]_vars

\* a source was appended while a caller held an instance of an earlier one
C4_Witness ==
  /\ held # {}
  /\ ret.op \in LoadOps
  /\ ret.outcome = "returned"
  /\ ~ret.alreadyLoaded
  /\ \E inst \in held : inst.src < Len(sources)

\* C5: a get with a filter (not the sentinel) that names no loaded module
\* providing the model fails with ClassNotImplementedError.
C5_FilteredGetNeverFallsBack ==
  (/\ ret.op = "get"
   /\ ret.moduleName # s_empty
   /\ ~IsSentinel(ret.moduleName)
   /\ ~\E k \in 1..Len(Loaded) :
         /\ FilterNames(ret.moduleName, Loaded[k].module)
         /\ Module_has(Loaded[k].module, ret.interface, ret.model))
  => ret.outcome = "ClassNotImplementedError"

\* C6: has returns true exactly when get with the same arguments, in the same
\* registry state, returns an instance.
C6_HasAgreesWithGet ==
  \A i \in QueryInterfaces, m \in QueryModels, f \in QueryFilters :
    Has(i, m, f) <=> Get(i, m, f).outcome = "returned"

\* C7: for a filter that is neither empty nor the sentinel, has is true
\* exactly when a loaded module named by the filter (its name the filter or
\* the filter + "Module", letter case ignored) reports has.
C7_FilteredHasIgnoresCase ==
  \A i \in QueryInterfaces, m \in QueryModels, f \in QueryFilters :
    (f # s_empty /\ ~IsSentinel(f)) =>
      (Has(i, m, f) <=>
         \E k \in 1..Len(Loaded) :
           /\ FilterNames(f, Loaded[k].module)
           /\ Module_has(Loaded[k].module, i, m))

\* the providers of a model among the loaded modules, as scan positions
Providers(i, m) == {k \in 1..Len(Loaded) : Module_has(Loaded[k].module, i, m)}

C9_NamesInLoadOrder ==
  [][IsPrefix(getLoadedModuleNames(sources),
              getLoadedModuleNames(sources'))]_vars

\* a second source was appended behind the first
C9_Witness ==
  /\ ret.op \in LoadOps
  /\ ret.outcome = "returned"
  /\ ~ret.alreadyLoaded
  /\ Len(sources) >= 2
  /\ Len(getLoadedModuleNames(sources)) >= 2

\* C10: getLoadedInterfaces() is strictly ascending (sorted, nothing twice)
\* and lists every interface a loaded module announces.
C10_InterfacesSortedUnique ==
  LET interfaces == getLoadedInterfaces(sources)
  IN  /\ \A k \in 1..(Len(interfaces) - 1) :
           StrLess(interfaces[k], interfaces[k + 1])
      /\ \A k \in 1..Len(Loaded) :
           LET announced == Module_announceInterfaces(Loaded[k].module)
           IN  \A j \in 1..Len(announced) :
                 \E n \in 1..Len(interfaces) : interfaces[n] = announced[j]

\* two loaded modules announce the same interface, out of order, and the
\* list has the three distinct identities
C10_Witness ==
  /\ Len(getLoadedInterfaces(sources)) = 3
  /\ \E a, b \in 1..Len(Loaded) :
       /\ a # b
       /\ \E j \in 1..Len(Module_announceInterfaces(Loaded[a].module)) :
            \E n \in 1..Len(Module_announceInterfaces(Loaded[b].module)) :
              Module_announceInterfaces(Loaded[a].module)[j]
                = Module_announceInterfaces(Loaded[b].module)[n]

\* the model list a module's table declares for an interface identity, read
\* off the table: the list of the entry of that identity, letter case
\* ignored, or no model when there is no such entry
Declared(m, interface) ==
  LET MPLMap == InterfaceModelMap[m]
      entries == {e \in 1..Len(MPLMap) :
                    to_lower_copy(MPLMap[e].interface)
                      = to_lower_copy(interface)}
  IN  IF ModuleKind[m] = "handwritten" \/ entries = {} THEN << >>
      ELSE MPLMap[SetMin(entries)].models

\* how many models the modules loaded before position k declare
DeclaredBefore(k, interface) ==
  Cardinality(UNION {{<<n, j>> :
                        j \in 1..Len(Declared(Loaded[n].module, interface))} :
                     n \in {n \in 1..Len(Loaded) : n < k}})

\* C11: getLoadedModels(interface) is the concatenation, over the loaded
\* modules in load order, of the model list each module's table declares for
\* the interface, in declaration order, a model two modules declare being
\* listed twice; with the one module declaring x then z loaded it is <<x, z>>.
C11_LoadedModelsConcatenated ==
  /\ \A i \in QueryInterfaces :
       LET models == getLoadedModels(sources, i)
       IN  /\ Len(models) = DeclaredBefore(Len(Loaded) + 1, i)
           /\ \A k \in 1..Len(Loaded) :
                LET declared == Declared(Loaded[k].module, i)
                IN  \A j \in 1..Len(declared) :
                      models[DeclaredBefore(k, i) + j] = declared[j]
  /\ (Len(sources) = 1 /\ sources[1].library = "libFoo")
       => getLoadedModels(sources, s_y) = <<s_x, s_z>>

\* two loaded modules declare the same model of the interface and the list
\* has it twice
C11_Witness ==
  LET models == getLoadedModels(sources, s_y)
  IN  /\ Len(Loaded) >= 2
      /\ \E a, b \in 1..Len(models) : a < b /\ models[a] = models[b]
      /\ \E k \in 1..Len(Loaded) :
           Len(Declared(Loaded[k].module, s_y)) = 2

\* the entries of a table whose interface identity is the given one, and the
\* models of an entry whose identity is the given one, letter case ignored
EntriesOf(MPLMap, interface) ==
  {e \in 1..Len(MPLMap) :
     to_lower_copy(MPLMap[e].interface) = to_lower_copy(interface)}

ModelsOf(PairType, model) ==
  {j \in 1..Len(PairType.models) :
     to_lower_copy(PairType.models[j]) = to_lower_copy(model)}

\* every model list of the table has a model / no list has two models of
\* one identity, letter case ignored
ListsNonEmpty(MPLMap) == \A e \in 1..Len(MPLMap) : MPLMap[e].models # << >>

ListsDuplicateFree(MPLMap) ==
  \A e \in 1..Len(MPLMap) :
    \A i, j \in 1..Len(MPLMap[e].models) :
      i # j => to_lower_copy(MPLMap[e].models[i])
                 # to_lower_copy(MPLMap[e].models[j])

C13_UnknownInterfaceIsEmpty ==
  (call.op \in {"has", "announceModels"}
     /\ EntriesOf(table, call.interface) = {})
    => (call.outcome = "returned" /\ ~call.found /\ call.list = << >>)

\* announceModels was asked, of a table with two entries whose lists hold
\* models, for an interface identity neither entry has
C13_Witness ==
  /\ call.op = "announceModels"
  /\ Len(table) = 2
  /\ ListsNonEmpty(table)
  /\ EntriesOf(table, call.interface) = {}

\* C14: a module's get constructs one model: the first model, of the first
\* entry of the interface identity, that has the model identity, letter case
\* ignored; it fails with ClassNotImplementedError exactly when there is no
\* such entry or no such model; so get succeeds exactly when has is true.
C14_GetConstructsFirstMatch ==
  call.op = "get" =>
    LET entries == EntriesOf(table, call.interface)
        models == IF entries = {} THEN {}
                  ELSE ModelsOf(table[SetMin(entries)], call.model)
    IN  /\ models # {} =>
             /\ call.outcome = "returned"
             /\ call.any = [empty |-> FALSE, holds |-> "shared_ptr",
                            model |-> table[SetMin(entries)]
                                        .models[SetMin(models)]]
        /\ models = {} =>
             (call.outcome = "ClassNotImplementedError" /\ call.any.empty)
        /\ (call.outcome = "returned")
             <=> DerivedModule_has(table, call.interface, call.model)

\* get was asked for an identity two models of the entry have, letter case
\* ignored, and returned the first of them
C14_Witness ==
  /\ call.op = "get"
  /\ call.outcome = "returned"
  /\ \E e \in EntriesOf(table, call.interface) :
       /\ ModelsOf(table[e], call.model) = {1, 2}
       /\ call.any.model = table[e].models[1]
       /\ table[e].models[2] = call.model

\* C15: a table in which two models of one interface have identities equal
\* up to letter case is never resolved from (validation rejects it), so in a
\* table get is called on every model is returned for its own identity.
C15_CaseVariantModelsRejected ==
  call.op = "get" =>
    /\ ListsDuplicateFree(table)
    /\ \A e \in 1..Len(table) :
         \A j \in 1..Len(table[e].models) :
           SampleModule_get(table, table[e].interface,
                            table[e].models[j]).any.model
             = table[e].models[j]

\* C16: no function of the module (has, get, announceInterfaces,
\* announceModels) is ever called on a table with an empty model list, so
\* announceModels is non-empty for every interface announceInterfaces lists.
C16_EmptyListTableUnusable ==
  call.op \in {"has", "get", "announceInterfaces", "announceModels"} =>
    /\ ListsNonEmpty(table)
    /\ LET interfaces == DerivedModule_announceInterfaces(table)
       IN  \A k \in 1..Len(interfaces) :
             DerivedModule_announceModels(table, interfaces[k]) # << >>

\* getAll of the linked implementation
GetAll(interface, moduleName) ==
  IF linked = "Impl" THEN Impl_getAll(sources, interface, moduleName)
  ELSE Cpp_getAll(sources, interface, moduleName)

\* C17: the predicate form of get returns the first instance, in getAll
\* order, that the predicate accepts; when getAll gives candidates and the
\* predicate accepts none it fails with the "no match" error; when getAll
\* gives no candidate it fails with the "no models loaded" error; the two
\* errors differ.
C17_PredicateGetFirstMatch ==
  ret.op = "get_predicate" =>
    LET anys == GetAll(ret.interface, ret.moduleName).models
        accepted == {n \in 1..Len(anys) :
                       anys[n].any.model \in ret.predicate}
    IN  /\ accepted # {} =>
             /\ ret.outcome = "returned"
             /\ ret.result = anys[SetMin(accepted)]
        /\ (anys # << >> /\ accepted = {}) =>
             (ret.outcome = "runtime_error" /\ ret.what = what_NoMatch)
        /\ anys = << >> =>
             (ret.outcome = "runtime_error"
                /\ ret.what = what_NoModelsLoaded)
        /\ what_NoMatch # what_NoModelsLoaded

\* the predicate refused the first candidate and the second was returned
C17_Witness ==
  /\ ret.op = "get_predicate"
  /\ ret.outcome = "returned"
  /\ LET anys == GetAll(ret.interface, ret.moduleName).models
     IN  /\ Len(anys) >= 2
         /\ anys[1].any.model \notin ret.predicate
         /\ ret.result = anys[2]

\* the name test of the linked implementation's getAll, and whether it takes
\* the module name for a filter
AllFilterNames(moduleName, m) ==
  IF linked = "Impl" THEN FilterNames(moduleName, m)
  ELSE name(m) = moduleName \/ name(m) = moduleName \o s_Module

AllIsFiltered(moduleName) ==
  /\ moduleName # s_empty
  /\ linked = "Impl" => ~IsSentinel(moduleName)

\* the modules getAll is to construct from: with a filter the first loaded
\* module the filter names, without one every loaded module
AllFrom(moduleName) ==
  LET named == {k \in 1..Len(Loaded) :
                  AllFilterNames(moduleName, Loaded[k].module)}
  IN  IF ~AllIsFiltered(moduleName) THEN 1..Len(Loaded)
      ELSE IF named = {} THEN {} ELSE {SetMin(named)}

\* how many models the modules of AllFrom before position k declare
AllBefore(moduleName, interface, k) ==
  Cardinality(UNION {{<<n, j>> :
                        j \in 1..Len(Declared(Loaded[n].module, interface))} :
                     n \in {n \in AllFrom(moduleName) : n < k}})

Loadable(l) == LibraryFile[l].mapped /\ LibraryFile[l].factory

\* the candidate is a loaded source, or it was refused because a source
\* loaded from another library has a module of one of its names
LoadedOrCollided(l) ==
  \/ \E k \in 1..Len(sources) : sources[k].library = l
  \/ \E j \in 1..Len(LibraryFile[l].modules) :
       \E k \in 1..Len(sources) :
         /\ sources[k].library # l
         /\ \E n \in 1..Len(sources[k].modules) :
              name(sources[k].modules[n]) = name(LibraryFile[l].modules[j])

\* C19: the constructor's scan is never left through a candidate that
\* fails to load: after it, every candidate of every scanned directory that
\* can be loaded is a loaded source (or lost to a name already loaded),
\* wherever the failing candidates stood.
C19_DiscoverySkipsFailures ==
  /\ discovery.phase # "threw"
  /\ discovery.phase = "constructed" =>
       \A d \in 1..Len(discovery.dirs) :
         \A f \in 1..Len(discovery.dirs[d]) :
           Loadable(discovery.dirs[d][f])
             => LoadedOrCollided(discovery.dirs[d][f])

\* a failing candidate stood first in a directory; the candidate behind it
\* in the same directory and the candidate of the next directory are the
\* loaded sources
C19_Witness ==
  /\ discovery.phase = "constructed"
  /\ Len(discovery.dirs) >= 2
  /\ Len(discovery.dirs[1]) = 2 /\ Len(discovery.dirs[2]) = 1
  /\ ~Loadable(discovery.dirs[1][1])
  /\ Len(sources) = 2
  /\ sources[1].library = discovery.dirs[1][2]
  /\ sources[2].library = discovery.dirs[2][1]

\* C20: a load(path) or load(libraryHandle) whose target cannot be mapped or
\* has no moduleFactory ends in a std::runtime_error to the caller and
\* leaves the loaded sources, and so the loaded modules, as they were.
C20_FailedLoadChangesNothing ==
  [][(ret'.op \in {"load_path", "load_library"} /\ ~Loadable(ret'.target))
       => /\ ret'.outcome = "runtime_error"
          /\ sources' = sources
          /\ getLoadedModuleNames(sources') = getLoadedModuleNames(sources)]_vars

\* a load of a library without moduleFactory failed with a source loaded
C20_Witness ==
  /\ ret.op \in {"load_path", "load_library"}
  /\ ret.target = "libNoFactory"
  /\ ret.outcome = "runtime_error"
  /\ Len(sources) >= 1


\* C21: the constructor scans every existing directory named in
\* SCINE_MODULE_PATH, each taken as written between two separators, in the
\* order of the list and wherever it stands in the list.
C21_EveryListedDirectoryScanned ==
  environment.op = "construct" =>
    environment.scanned = SelectSeq(environment.tokens, is_directory)

\* C25: Detail::split inverts joining: the split of the delimiter-joined
\* string of non-empty tokens without the delimiter is the list of the
\* tokens, in their order.
C25_SplitInvertsJoin ==
  (/\ environment.op = "split"
   /\ \A k \in 1..Len(environment.tokens) :
         /\ environment.tokens[k] # s_empty
         /\ \A c \in 1..Len(environment.tokens[k]) :
               environment.tokens[k][c] # environment.delimiter)
  => environment.elements = environment.tokens

C25_Witness ==
  /\ environment.op = "split"
  /\ environment.tokens = <<s_a, s_b, s_a>>
  /\ environment.s = <<97, 59, 98, 59, 97>>
  /\ environment.elements = <<s_a, s_b, s_a>>


\* C22: load(module) of an in-process module object never fails, whatever is
\* loaded: it returns, and either the module was appended as a new last
\* source or, its name being loaded already, the sources are as they were.
C22_LoadModuleNeverFails ==
  [][ret'.op = "load_module"
       => /\ ret'.outcome = "returned"
          /\ IF \E k \in 1..Len(Loaded) :
                  name(Loaded[k].module) = name(ret'.target)
               THEN sources' = sources
               ELSE /\ Len(sources') = Len(sources) + 1
                    /\ SubSeq(sources', 1, Len(sources)) = sources
                    /\ sources'[Len(sources')].modules = <<ret'.target>>]_vars

\* load(module) returned for a module whose name was loaded already, and
\* the registry holds what it held
C22_Witness ==
  /\ ret.op = "load_module"
  /\ ret.alreadyLoaded
  /\ ret.outcome = "returned"
  /\ Len(sources) >= 1


\* C26: remove(name) and extract(name) on a domain without a sink of that
\* name fail with std::out_of_range and leave the sinks as they were; with
\* such a sink they return, that sink is gone (extract hands it back) and
\* every other sink is still there under its name.
C26_RemoveExtractExactlyNamed ==
  [][log'.op \in {"remove", "extract"}
       => IF log'.name \notin DOMAIN log.sinks_
            THEN /\ log'.outcome = "out_of_range"
                 /\ log'.sinks_ = log.sinks_
          ELSE /\ log'.outcome = "returned"
               /\ DOMAIN log'.sinks_ = (DOMAIN log.sinks_) \ {log'.name}
               /\ \A k \in DOMAIN log'.sinks_ : log'.sinks_[k] = log.sinks_[k]
               /\ log'.op = "extract"
                    => log'.extracted = log.sinks_[log'.name]]_vars

\* extract("sample") handed back the file sink and left the domain its
\* "cerr" sink
C26_Witness ==
  /\ log.op = "extract"
  /\ log.name = "sample"
  /\ log.outcome = "returned"
  /\ log.extracted = "fileSink"
  /\ DOMAIN log.sinks_ = {"cerr"}
  /\ log.sinks_["cerr"] = "cerrSink"

\* C27: lazy on a domain without sinks invokes none of its callables and
\* returns, throwing callables included; and the conversion to bool is true
\* exactly when the domain holds a sink: false after clear() and for the
\* domains of Log::silent(), true after add.
C27_LazyAndBoolFollowSinks ==
  /\ (log.op = "lazy" /\ Cardinality(DOMAIN log.sinks_) = 0)
       => (log.invoked = 0 /\ log.outcome = "returned")
  /\ log.op = "bool"
       => /\ log.bool <=> Cardinality(DOMAIN log.sinks_) >= 1
          /\ log.previous = "clear" => ~log.bool
          /\ log.previous = "add" => log.bool
          /\ (log.previous = "none" /\ log.origin[1] = "silent") => ~log.bool

\* lazy was given a throwing callable on a domain that clear() had emptied
C27_Witness ==
  /\ log.op = "lazy"
  /\ log.args = <<"throws">>
  /\ log.previous = "clear"
  /\ log.origin[1] = "Log"
  /\ DOMAIN log.sinks_ = {}
  /\ log.invoked = 0
  /\ log.outcome = "returned"


\* C23: the registry singleton is initialized exactly once: however the
\* threads race on the first getInstance(), the constructor (discovery) runs
\* once, and every caller that has returned sees the one instance with the
\* whole discovery in it, never a part of it.
C23_InitializedExactlyOnce ==
  /\ singleton.constructions <= 1
  /\ \A t \in DOMAIN singleton.pc :
        singleton.pc[t] = "returned"
          => /\ singleton.constructions = 1
             /\ singleton.guard = "initialized"
             /\ singleton.todo = << >>
             /\ singleton.seen[t] =
                  tryLoadModulesInPath(linked, [threw |-> FALSE,
                                                sources |-> << >>],
                                       singleton.scan, 1).sources
             /\ \A u \in DOMAIN singleton.pc :
                   singleton.pc[u] = "returned"
                     => singleton.seen[u] = singleton.seen[t]

\* one thread ran the constructor over two candidates, another one arrived
\* meanwhile and waited; both have returned
C23_Witness ==
  /\ Len(singleton.scan) >= 2
  /\ Len(sources) >= 1
  /\ \E t, u \in DOMAIN singleton.pc :
        /\ singleton.pc[t] = "returned" /\ singleton.path[t] = "constructed"
        /\ singleton.pc[u] = "returned" /\ singleton.path[u] = "waited"


\* C24: neither form of get hands back an empty result: a call fails with an
\* error, or it returns a non-empty wrapper with a non-null pointer of the
\* interface asked for; the assertions in both forms of get hold.
C24_GetNeverEmpty ==
  /\ ret.op = "get"
       => LET got == get_Interface(ret.result)
          IN  /\ got.asserted
              /\ got.outcome = "returned"
                   => /\ ~ret.result.any.empty
                      /\ got.ptr = "non-null"
                      /\ \E k \in 1..Len(Loaded) :
                            Declared(Loaded[k].module, ret.interface)
                              # << >>
  /\ ret.op = "get_predicate"
       => /\ get_predicate_asserted(GetAll(ret.interface, ret.moduleName),
                                    ret.predicate)
          /\ ret.outcome = "returned"
               => /\ ~ret.result.any.empty
                  /\ ret.result.any.holds = "shared_ptr"

\* a get returned an instance from a registry that also holds FakeModule,
\* whose own get would return NULL
C24_Witness ==
  /\ ret.op = "get"
  /\ ret.outcome = "returned"
  /\ \E k \in 1..Len(Loaded) : Loaded[k].module = "mFake"


\* C28: the filter "any", in any letter case, is no filter: has, get and
\* getAll give for it what they give for the empty filter, whatever is
\* loaded, a module named "any" included.
C28_SentinelIsNoFilter ==
  \A i \in QueryInterfaces, f \in {s_any, s_ANY} :
    /\ GetAll(i, f) = GetAll(i, s_empty)
    /\ \A m \in QueryModels :
          /\ Has(i, m, f) = Has(i, m, s_empty)
          /\ Get(i, m, f) = Get(i, m, s_empty)


\* the loaded modules a filter names under the rule of the specification
Named(f) == {k \in 1..Len(Loaded) : FilterNames(f, Loaded[k].module)}

\* C29 as stated: a non-empty filter names at most one loaded module: no
\* two loaded modules have names that both equal the filter or the filter +
\* "Module", letter case ignored.
C29_FilterSelectsAtMostOne ==
  \A f \in QueryFilters : f # s_empty => Cardinality(Named(f)) <= 1

\* C29 as amended: what the registry keeps apart is the exact name, between
\* sources: no two modules of different loaded sources report the same name
\* character by character.  Names that differ in letter case or by the
\* suffix "Module" are loaded together, and a filter then names several.
C29_ExactNamesDistinctAcrossSources ==
  \A a, b \in 1..Len(Loaded) :
    Loaded[a].src # Loaded[b].src
      => name(Loaded[a].module) # name(Loaded[b].module)

\* "Foo" and "FooModule" are loaded together and the filter "Foo" names both
C29_Witness ==
  /\ ret.op \in LoadOps
  /\ ret.outcome = "returned"
  /\ ~ret.alreadyLoaded
  /\ \E a, b \in Named(s_Foo) :
        /\ Loaded[a].src # Loaded[b].src
        /\ name(Loaded[a].module) = s_Foo
        /\ name(Loaded[b].module) = s_FooModule

\* the models getAll constructs and the models has reports, for one
\* interface and filter, as sets of identities in lower case
BuiltIn(all) ==
  {to_lower_copy(all.models[n].any.model) : n \in 1..Len(all.models)}

Built(i, f) == BuiltIn(GetAll(i, f))

Reported(i, f) == {to_lower_copy(m) : m \in {m \in QueryModels : Has(i, m, f)}}

====
